---- MODULE Spec2Model ----
(***************************************************************************)
(* Model of InstructionClassification.cpp: an LLVM FunctionPass that files *)
(* every instruction of a function into one of ten SmallVectors according  *)
(* to its opcode (runOnFunction) and prints the ten vector sizes (print).  *)
(*                                                                         *)
(* The pass object is the record `this`; the IR the host owns is `Module`, *)
(* a sequence of function bodies, each a sequence of opcodes.  A function  *)
(* is named by its index in Module and an instruction pointer is the pair  *)
(* <<function, position>>.  `ret` and `OS` are what the latest operation   *)
(* returned and what it wrote to the stream it was given (only print is    *)
(* given one), `lastOp` names that operation, `PreservesAll` is the flag   *)
(* of the AnalysisUsage the pass manager keeps for the pass, and `hist`    *)
(* records the pass object as each runOnFunction call left it.             *)
(***************************************************************************)
EXTENDS Integers, Sequences, FiniteSets, TLC

VARIABLES Module, this, PreservesAll, OS, ret, lastOp, hist

vars == <<Module, this, PreservesAll, OS, ret, lastOp, hist>>

(***************************************************************************)
(* Bounds of the model.                                                    *)
(***************************************************************************)
\* longest function body the host builds
MaxLen == 2
\* number of runOnFunction calls on one pass instance
MaxCalls == 2
\* number of runOnFunction calls when every opcode is tried
MaxTableCalls == 1

(***************************************************************************)
(* Opcodes.  The first nine sets are the case labels of the switch; the    *)
(* rest of the host's enumeration has no case label.                       *)
(***************************************************************************)
TermOpcodes ==
    {"Ret", "Br", "Switch", "IndirectBr", "Invoke", "CallBr", "Resume",
     "CatchSwitch", "CatchRet", "CleanupRet", "Unreachable"}

UnaryOpcodes == {"FNeg"}

BinaryOpcodes == {"Add", "Sub", "Mul", "UDiv", "SDiv", "URem", "SRem"}

FloatBinaryOpcodes == {"FAdd", "FSub", "FMul", "FRem", "FDiv"}

BitwiseBinaryOpcodes == {"Shl", "LShr", "AShr", "And", "Or", "Xor"}

VectorOpcodes == {"ExtractElement", "InsertElement", "ShuffleVector"}

AggregateOpcodes == {"ExtractValue", "InsertValue"}

MemAccessAndAddrOpcodes ==
    {"Alloca", "Load", "Store", "Fence", "AtomicCmpXchg", "AtomicRMW",
     "GetElementPtr"}

ConvOpcodes ==
    {"Trunc", "ZExt", "SExt", "FPTrunc", "FPExt", "FPToUI", "FPToSI",
     "UIToFP", "SIToFP", "PtrToInt", "IntToPtr", "BitCast", "AddrSpaceCast"}

\* opcodes of the host IR that the switch does not name, and one opcode of a
\* later IR version
UnlistedOpcodes ==
    {"PHI", "Call", "ICmp", "FCmp", "Select", "LandingPad", "VAArg",
     "CatchPad", "CleanupPad", "Freeze", "UserOp1", "UserOp2", "FutureOp"}

Opcodes ==
    TermOpcodes \cup UnaryOpcodes \cup BinaryOpcodes \cup FloatBinaryOpcodes
    \cup BitwiseBinaryOpcodes \cup VectorOpcodes \cup AggregateOpcodes
    \cup MemAccessAndAddrOpcodes \cup ConvOpcodes \cup UnlistedOpcodes

\* the opcodes the host draws from when it builds whole function bodies
SampleOpcodes == {"Ret", "Add", "FutureOp"}

(***************************************************************************)
(* The pass object.                                                        *)
(***************************************************************************)
\* the ten vectors, in declaration order
Vectors ==
    <<"TermOps", "UnaryOps", "BinaryOps", "FloatBinaryOps",
      "BitwiseBinaryOps", "VectorOps", "AggregateOps", "MemAccessAndAddrOps",
      "ConvOps", "OtherOps">>

VectorNames == {Vectors[n] : n \in DOMAIN Vectors}

\* values an uninitialised Function* member can hold: null or a stale address
UninitF == {0, 99}

\* the constructor: the vectors are empty, F is not initialised
Constructed(f) ==
    [F |-> f,
     TermOps |-> <<>>, UnaryOps |-> <<>>, BinaryOps |-> <<>>,
     FloatBinaryOps |-> <<>>, BitwiseBinaryOps |-> <<>>, VectorOps |-> <<>>,
     AggregateOps |-> <<>>, MemAccessAndAddrOps |-> <<>>, ConvOps |-> <<>>,
     OtherOps |-> <<>>]

\* I->getOpcode()
getOpcode(I) == Module[I[1]][I[2]]

\* a push at the front instead of the back
push_front(v, x) == <<x>> \o v

\* SmallVector::push_back
push_back(v, x) == Append(v, x)

\* SmallVector::size
size(v) == Len(v)

\* the switch: the vector an opcode's case pushes to
Category(opc) ==
    CASE opc \in {"Ret", "Br", "Switch", "IndirectBr", "Invoke", "CallBr",
                  "Resume", "CatchSwitch", "CatchRet", "CleanupRet",
                  "Unreachable"} -> "TermOps"
      [] opc \in {"FNeg"} -> "UnaryOps"
      [] opc \in {"Add", "Sub", "Mul", "UDiv", "SDiv", "URem", "SRem"}
            -> "BinaryOps"
      [] opc \in {"FAdd", "FSub", "FMul", "FRem", "FDiv"} -> "FloatBinaryOps"
      [] opc \in {"Shl", "LShr", "AShr", "And", "Or", "Xor"}
            -> "BitwiseBinaryOps"
      [] opc \in {"ExtractElement", "InsertElement", "ShuffleVector"}
            -> "VectorOps"
      [] opc \in {"ExtractValue", "InsertValue"} -> "AggregateOps"
      [] opc \in {"Alloca", "Load", "Store", "Fence", "AtomicCmpXchg",
                  "AtomicRMW", "GetElementPtr"} -> "MemAccessAndAddrOps"
      [] opc \in {"Trunc", "ZExt", "SExt", "FPTrunc", "FPExt", "FPToUI",
                  "FPToSI", "UIToFP", "SIToFP", "PtrToInt", "IntToPtr",
                  "BitCast", "AddrSpaceCast"} -> "ConvOps"
      [] OTHER -> "OtherOps"

\* a switch without the CallBr label: the opcode falls to the default
ClassifyInst_noCallBr(t, I) ==
    LET c == IF getOpcode(I) = "CallBr" THEN "OtherOps"
             ELSE Category(getOpcode(I))
    IN  [t EXCEPT ![c] = push_back(@, I)]

\* a switch whose default does nothing
ClassifyInst_emptyDefault(t, I) ==
    LET c == Category(getOpcode(I))
    IN  IF c = "OtherOps" THEN t ELSE [t EXCEPT ![c] = push_back(@, I)]

\* one iteration of the loop: the instruction is pushed to its case's vector
ClassifyInst(t, I) ==
    LET c == Category(getOpcode(I))
    IN  [t EXCEPT ![c] = push_back(@, I)]

\* the loop from inst_begin(F) to inst_end(F), from position i on
RECURSIVE InstLoop(_, _, _)
InstLoop(t, f, i) ==
    IF i > Len(Module[f]) THEN t
    ELSE InstLoop(ClassifyInst(t, <<f, i>>), f, i + 1)

(***************************************************************************)
(* print: operator<< of a size_t writes its decimal digits.                *)
(***************************************************************************)
Digits == <<"0", "1", "2", "3", "4", "5", "6", "7", "8", "9">>

RECURSIVE Dec(_)
Dec(n) ==
    IF n < 10 THEN <<Digits[n + 1]>>
    ELSE Dec(n \div 10) \o <<Digits[(n % 10) + 1]>>

\* the text in front of each count, in the order of the OS << statements
Labels ==
    <<"  # terminator operations: ",
      "  # unary operations: ",
      "  # binary operations: ",
      "  # float binary operations: ",
      "  # bitwise binary operations: ",
      "  # vector operations: ",
      "  # aggregate operations: ",
      "  # memory access and addressing operations: ",
      "  # conversion operations: ",
      "  # other operations: ">>

\* one line of output: the label and the digits; the '\n' ends the line
Line(label, n) == [label |-> label, digits |-> Dec(n)]

\* the ten OS << statements
PrintLines(t) ==
    <<Line(Labels[1], size(t.TermOps)),
      Line(Labels[2], size(t.UnaryOps)),
      Line(Labels[3], size(t.BinaryOps)),
      Line(Labels[4], size(t.FloatBinaryOps)),
      Line(Labels[5], size(t.BitwiseBinaryOps)),
      Line(Labels[6], size(t.VectorOps)),
      Line(Labels[7], size(t.AggregateOps)),
      Line(Labels[8], size(t.MemAccessAndAddrOps)),
      Line(Labels[9], size(t.ConvOps)),
      Line(Labels[10], size(t.OtherOps))>>

(***************************************************************************)
(* Initial state: the pass has been constructed, the host has built no     *)
(* function yet and nothing has been printed.                              *)
(***************************************************************************)
Init ==
    /\ Module = <<>>
    /\ \E f \in UninitF : this = Constructed(f)
    /\ PreservesAll = FALSE
    /\ OS = <<>>
    /\ ret = "none"
    /\ lastOp = "constructor"
    /\ hist = <<>>

(***************************************************************************)
(* Operations.                                                             *)
(***************************************************************************)
\* function bodies of at most n opcodes drawn from ops
Bodies(ops, n) == UNION {[1..k -> ops] : k \in 0..n}

\* functions the pass has been run on
FunctionsRun == {hist[k].F : k \in DOMAIN hist}

\* The host builds the next function of the module, after it has scheduled
\* the pass.  It hands functions to the pass one at a time: the next one is
\* built once the pass has run on all the earlier ones.
HostBuildsFunction(bodies, maxCalls) ==
    /\ lastOp # "constructor"
    /\ Len(hist) < maxCalls
    /\ \A f \in DOMAIN Module : f \in FunctionsRun
    /\ \E body \in bodies : Module' = Append(Module, body)
    /\ OS' = <<>>
    /\ ret' = "none"
    /\ lastOp' = "host"
    /\ UNCHANGED <<this, PreservesAll, hist>>

\* getAnalysisUsage(AU): AU.setPreservesAll(); the pass manager asks for it
\* when the pass is scheduled, before any run
getAnalysisUsage ==
    /\ lastOp = "constructor"
    /\ PreservesAll' = TRUE
    /\ ret' = "void"
    /\ OS' = <<>>
    /\ lastOp' = "getAnalysisUsage"
    /\ UNCHANGED <<Module, this, hist>>

\* a run that says it changed the function
runOnFunction_returnsTrue(f) ==
    /\ this' = InstLoop([this EXCEPT !.F = f], f, 1)
    /\ ret' = TRUE
    /\ lastOp' = "runOnFunction"
    /\ hist' = Append(hist, this')
    /\ OS' = <<>>
    /\ UNCHANGED <<Module, PreservesAll>>

\* a run that empties the vectors first
runOnFunction_clears(f) ==
    /\ this' = InstLoop(Constructed(f), f, 1)
    /\ ret' = FALSE
    /\ lastOp' = "runOnFunction"
    /\ hist' = Append(hist, this')
    /\ OS' = <<>>
    /\ UNCHANGED <<Module, PreservesAll>>

\* runOnFunction(F): this->F = &F, the loop over F's instructions, return false
runOnFunction(f) ==
    /\ this' = InstLoop([this EXCEPT !.F = f], f, 1)
    /\ ret' = FALSE
    /\ lastOp' = "runOnFunction"
    /\ hist' = Append(hist, this')
    /\ OS' = <<>>
    /\ UNCHANGED <<Module, PreservesAll>>

\* the pass manager runs the pass on a function of the module
RunPass(maxCalls) ==
    /\ lastOp # "constructor"
    /\ Len(hist) < maxCalls
    /\ \E f \in DOMAIN Module : runOnFunction(f)

\* a print that leaves out the categories of size 0
print_skipsEmpty ==
    /\ lastOp # "constructor"
    /\ OS' = SelectSeq(PrintLines(this), LAMBDA l : l.digits # <<"0">>)
    /\ ret' = "void"
    /\ lastOp' = "print"
    /\ UNCHANGED <<Module, this, PreservesAll, hist>>

\* print(OS, M): ten lines written to OS
print ==
    /\ lastOp # "constructor"
    /\ OS' = PrintLines(this)
    /\ ret' = "void"
    /\ lastOp' = "print"
    /\ UNCHANGED <<Module, this, PreservesAll, hist>>

Next ==
    \/ HostBuildsFunction(Bodies(SampleOpcodes, MaxLen), MaxCalls)
    \/ getAnalysisUsage
    \/ RunPass(MaxCalls)
    \/ print

Spec == Init /\ [][Next]_vars

\* every opcode of the enumeration, one instruction per function
NextTable ==
    \/ HostBuildsFunction(Bodies(Opcodes, 1) \ {<<>>}, MaxTableCalls)
    \/ getAnalysisUsage
    \/ RunPass(MaxTableCalls)
    \/ print

SpecTable == Init /\ [][NextTable]_vars

(***************************************************************************)
(* Vocabulary of the properties.                                           *)
(***************************************************************************)
\* the instruction pointers of function f, in traversal order
InstSeq(f) == [i \in 1..Len(Module[f]) |-> <<f, i>>]

Insts(f) == {<<f, i>> : i \in 1..Len(Module[f])}

\* v holds pointer p
Holds(v, p) == \E n \in DOMAIN v : v[n] = p

\* how many entries of v are p
Occurrences(v, p) == Cardinality({n \in DOMAIN v : v[n] = p})

FirstIndex(v, p) == CHOOSE n \in DOMAIN v : v[n] = p /\ \A m \in 1..(n - 1) : v[m] # p

LastIndex(v, p) == CHOOSE n \in DOMAIN v : v[n] = p /\ \A m \in (n + 1)..Len(v) : v[m] # p

\* the sum of the ten sizes
RECURSIVE SumSizes(_, _)
SumSizes(t, n) == IF n = 0 THEN 0 ELSE SumSizes(t, n - 1) + Len(t[Vectors[n]])

TotalCount(t) == SumSizes(t, Len(Vectors))

\* the function of the latest runOnFunction call
LastF == hist[Len(hist)].F

\* how many times the pass has run on f
RunsOf(f) == Cardinality({k \in DOMAIN hist : hist[k].F = f})

\* the partition table of the specification
Family ==
    [TermOps |-> TermOpcodes, UnaryOps |-> UnaryOpcodes,
     BinaryOps |-> BinaryOpcodes, FloatBinaryOps |-> FloatBinaryOpcodes,
     BitwiseBinaryOps |-> BitwiseBinaryOpcodes, VectorOps |-> VectorOpcodes,
     AggregateOps |-> AggregateOpcodes,
     MemAccessAndAddrOps |-> MemAccessAndAddrOpcodes, ConvOps |-> ConvOpcodes]

Families == DOMAIN Family

ListedOpcodes == UNION {Family[c] : c \in Families}

\* the category the partition table gives an opcode
TableCategory(opc) ==
    IF opc \in ListedOpcodes THEN CHOOSE c \in Families : opc \in Family[c]
    ELSE "OtherOps"

\* the instructions of f that the table puts in category c, in traversal order
Expected(f, c) ==
    SelectSeq(InstSeq(f), LAMBDA p : TableCategory(getOpcode(p)) = c)

\* a result holding the classification of f alone
FreshResult(f) == [c \in VectorNames |-> Expected(f, c)]

\* the number a line's digits denote
DigitValue(d) == (CHOOSE n \in DOMAIN Digits : Digits[n] = d) - 1

RECURSIVE Val(_)
Val(ds) ==
    IF Len(ds) = 0 THEN 0
    ELSE 10 * Val(SubSeq(ds, 1, Len(ds) - 1)) + DigitValue(ds[Len(ds)])

IsPrefix(s, t) == Len(s) <= Len(t) /\ SubSeq(t, 1, Len(s)) = s

\* a vector's entries as <<position in function, opcode>>
Shape(v) == [n \in DOMAIN v |-> <<v[n][2], getOpcode(v[n])>>]

(***************************************************************************)
(* C1: after runOnFunction on a function, every instruction of that        *)
(* function is held by exactly one of the ten vectors, and the ten sizes   *)
(* add up to the number of instructions of that function.                  *)
(***************************************************************************)
C1_PartitionAndSum ==
    lastOp = "runOnFunction" =>
        /\ \A p \in Insts(LastF) :
               Cardinality({c \in VectorNames : Holds(this[c], p)}) = 1
        /\ TotalCount(this) = Len(Module[LastF])

(***************************************************************************)
(* C2: the result seen after a call on a function holds the instructions   *)
(* of that function only, and so does the report printed from it: nothing  *)
(* of an earlier call is kept.                                             *)
(***************************************************************************)
C2_FreshPerFunction ==
    hist # <<>> =>
        /\ \A c \in VectorNames : this[c] = FreshResult(LastF)[c]
        /\ lastOp = "print" =>
               \A n \in DOMAIN Vectors :
                   Val(OS[n].digits) = Len(FreshResult(LastF)[Vectors[n]])

(***************************************************************************)
(* C3: every instruction the pass has run on is held by the vector of the  *)
(* family the partition table lists its opcode in, and by that one only;   *)
(* no opcode is listed in two families.                                    *)
(***************************************************************************)
C3_PartitionTable ==
    /\ \A c \in Families : \A d \in Families \ {c} : Family[c] \cap Family[d] = {}
    /\ \A f \in FunctionsRun : \A p \in Insts(f) : \A c \in Families :
           (getOpcode(p) \in Family[c]) <=> Holds(this[c], p)

C3_Witness ==
    /\ \E n \in DOMAIN this.TermOps : getOpcode(this.TermOps[n]) = "CallBr"
    /\ lastOp = "runOnFunction"

(***************************************************************************)
(* C4: an instruction whose opcode the table does not list is appended to  *)
(* OtherOps once per run on its function, is in no other vector, and the   *)
(* run returns normally.                                                   *)
(***************************************************************************)
C4_FallbackToOther ==
    /\ \A f \in FunctionsRun : \A p \in Insts(f) :
           getOpcode(p) \notin ListedOpcodes =>
               /\ Occurrences(this.OtherOps, p) = RunsOf(f)
               /\ \A c \in Families : ~Holds(this[c], p)
    /\ lastOp = "runOnFunction" => ret = FALSE

C4_Witness ==
    /\ lastOp = "runOnFunction"
    /\ \E n \in DOMAIN this.OtherOps : getOpcode(this.OtherOps[n]) = "FutureOp"

(***************************************************************************)
(* C5: two instructions of one function that are held by the same vector   *)
(* stand in it in the order of the traversal, whether one looks at their   *)
(* first or at their last entries.                                         *)
(***************************************************************************)
C5_OrderPreserved ==
    \A c \in VectorNames : \A f \in FunctionsRun :
        \A a \in Insts(f) : \A b \in Insts(f) \ {a} :
            (Holds(this[c], a) /\ Holds(this[c], b)) =>
                /\ (FirstIndex(this[c], a) < FirstIndex(this[c], b)) <=> (a[2] < b[2])
                /\ (LastIndex(this[c], a) < LastIndex(this[c], b)) <=> (a[2] < b[2])

C5_Witness ==
    /\ lastOp = "runOnFunction"
    /\ \E c \in VectorNames : \E f \in FunctionsRun :
           /\ Holds(this[c], <<f, 1>>)
           /\ Holds(this[c], <<f, 2>>)
           /\ \E g \in FunctionsRun \ {f} : Holds(this[c], <<g, 1>>)

(***************************************************************************)
(* C6: a report has exactly ten lines, in the fixed order of the           *)
(* categories; each line carries the size of its category's vector, and a  *)
(* category of size 0 has its line too.                                    *)
(***************************************************************************)
C6_TenLines ==
    lastOp = "print" =>
        /\ Len(OS) = 10
        /\ \A n \in 1..10 :
               /\ OS[n].label = Labels[n]
               /\ Len(OS[n].digits) >= 1
               /\ Val(OS[n].digits) = Len(this[Vectors[n]])

C6_Witness ==
    /\ lastOp = "print"
    /\ \E n \in 1..10 : Len(this[Vectors[n]]) = 0
    /\ \E n \in 1..10 : Len(this[Vectors[n]]) > 1

(***************************************************************************)
(* C7: two runs on the same sequence of opcodes give the same vectors and  *)
(* the same report text.                                                   *)
(***************************************************************************)
C7_Determinism ==
    \A j \in DOMAIN hist : \A k \in DOMAIN hist :
        Module[hist[j].F] = Module[hist[k].F] =>
            /\ \A c \in VectorNames : Shape(hist[j][c]) = Shape(hist[k][c])
            /\ PrintLines(hist[j]) = PrintLines(hist[k])

(***************************************************************************)
(* C8: runOnFunction leaves the module as it was and returns false, with   *)
(* all analyses declared preserved; print changes neither the module nor   *)
(* any vector.                                                             *)
(***************************************************************************)
C8_ReadOnly ==
    [][/\ lastOp' = "runOnFunction" =>
              Module' = Module /\ ret' = FALSE /\ PreservesAll'
       /\ lastOp' = "print" => Module' = Module /\ this' = this
       /\ lastOp' = "getAnalysisUsage" => PreservesAll' /\ Module' = Module]_vars

C8_Witness ==
    /\ lastOp = "print"
    /\ Len(hist) > 1
    /\ Len(Module[LastF]) > 1

(***************************************************************************)
(* C9: a report printed after a run on an empty function shows ten counts  *)
(* of 0.                                                                   *)
(***************************************************************************)
C9_EmptyAllZero ==
    (lastOp = "print" /\ hist # <<>> /\ Module[LastF] = <<>>) =>
        \A n \in 1..10 : OS[n].digits = <<"0">>

(***************************************************************************)
(* C10: the vectors of one pass instance only grow: a step never removes   *)
(* or reorders an entry, and after runs on F1..Fk each vector is the       *)
(* concatenation, in call order, of the subsequences of F1..Fk of its      *)
(* category, so the ten sizes add up to the instructions of F1..Fk.        *)
(***************************************************************************)
RECURSIVE Accumulated(_, _)
Accumulated(c, k) ==
    IF k = 0 THEN <<>> ELSE Accumulated(c, k - 1) \o Expected(hist[k].F, c)

RECURSIVE InstsRun(_)
InstsRun(k) == IF k = 0 THEN 0 ELSE InstsRun(k - 1) + Len(Module[hist[k].F])

C10_Accumulates ==
    /\ [](/\ \A c \in VectorNames : this[c] = Accumulated(c, Len(hist))
          /\ TotalCount(this) = InstsRun(Len(hist)))
    /\ [][\A c \in VectorNames : IsPrefix(this[c], this'[c])]_vars

C10_Witness ==
    /\ Len(hist) > 1
    /\ hist[1].F # LastF
    /\ \E c \in VectorNames :
           Holds(this[c], <<hist[1].F, 1>>) /\ Holds(this[c], <<LastF, 1>>)

====
